---- MODULE Spec2Model ----
(***************************************************************************)
(* naturism.is: the StaticSite construct (lib/static-site.ts) maps one     *)
(* domain name to a fixed topology of resources; the app deploys it as     *)
(* NaturismIsStack.  The model evaluates the construct as a pure function  *)
(* of the domain name and runs the resulting description through deploy    *)
(* and teardown of the stack.                                              *)
(***************************************************************************)
EXTENDS Integers, Sequences, FiniteSets, TLC

\* ----- bounds -------------------------------------------------------------
MaxDeploys == 3           \* deploy attempts explored
MaxVersion == 2           \* revisions of the local site

\* Values of the `domain` context key the app is run with.
Domains == {"naturism.is", "example.com"}
\* Files of the local ./website directory.
Paths == {"/index.html", "/error.html"}
Versions == 1..MaxVersion

NoObjects == [p \in {} |-> 0]
NoStack == [id \in {} |-> 0]

\* ----- the construct: lib/static-site.ts ----------------------------------

\* const www = "www." + domainName
www(domainName) == "www." \o domainName

\* faulty variant: the zone is referred to without being looked up
fromLookupUnchecked(zones, domainName) ==
  [type |-> "HostedZoneLookup", domainName |-> domainName, found |-> TRUE]

\* route53.HostedZone.fromLookup(this, "Zone", { domainName }): the zone of
\* that name among the zones the DNS authority has; the lookup is made once.
fromLookup(zones, domainName) ==
  [type |-> "HostedZoneLookup",
   domainName |-> domainName,
   found |-> domainName \in zones]

\* faulty variant: the content bucket is given the bare domain as its name
SiteBucketBare(domainName) ==
  [type |-> "Bucket",
   bucketName |-> domainName,
   websiteIndexDocument |-> "index.html",
   websiteErrorDocument |-> "error.html",
   publicReadAccess |-> TRUE,
   websiteRedirect |-> <<>>,
   removalPolicy |-> "DESTROY"]

\* faulty variant: the content bucket keeps the default removal policy
SiteBucketRetain(domainName) ==
  [type |-> "Bucket",
   bucketName |-> www(domainName),
   websiteIndexDocument |-> "index.html",
   websiteErrorDocument |-> "error.html",
   publicReadAccess |-> TRUE,
   websiteRedirect |-> <<>>,
   removalPolicy |-> "RETAIN"]

\* new s3.Bucket(this, "SiteBucket", {...})
SiteBucket(domainName) ==
  [type |-> "Bucket",
   bucketName |-> www(domainName),
   websiteIndexDocument |-> "index.html",
   websiteErrorDocument |-> "error.html",
   publicReadAccess |-> TRUE,
   websiteRedirect |-> <<>>,
   removalPolicy |-> "DESTROY"]

\* faulty variant: the redirect goes over plain http
RedirectBucketHttp(domainName) ==
  [type |-> "Bucket",
   bucketName |-> domainName,
   websiteRedirect |-> <<[hostName |-> www(domainName), protocol |-> "http"]>>,
   removalPolicy |-> "RETAIN"]

\* faulty variant: the redirect bucket is given the DESTROY policy of the content bucket
RedirectBucketDestroy(domainName) ==
  [type |-> "Bucket",
   bucketName |-> domainName,
   websiteRedirect |-> <<[hostName |-> www(domainName), protocol |-> "https"]>>,
   removalPolicy |-> "DESTROY"]

\* faulty variant: the redirect host is the literal of the comment, not derived from
\* the domain name
RedirectBucketLiteral(domainName) ==
  [type |-> "Bucket",
   bucketName |-> domainName,
   websiteRedirect |-> <<[hostName |-> "www.naturism.is", protocol |-> "https"]>>,
   removalPolicy |-> "RETAIN"]

\* new s3.Bucket(this, "RedirectBucket", {...}); no removalPolicy is given,
\* so the bucket has the default one, RETAIN.
RedirectBucket(domainName) ==
  [type |-> "Bucket",
   bucketName |-> domainName,
   websiteRedirect |-> <<[hostName |-> www(domainName), protocol |-> "https"]>>,
   removalPolicy |-> "RETAIN"]

\* new route53.ARecord(this, "RedirectAliasRecord", {...})
RedirectAliasRecord(domainName) ==
  [type |-> "ARecord",
   recordName |-> domainName,
   target |-> [kind |-> "BucketWebsiteTarget", ref |-> "RedirectBucket"],
   zone |-> "Zone"]

\* faulty variant: the certificate lists no alternative name
SiteCertificateNoSan(domainName) ==
  [type |-> "DnsValidatedCertificate",
   domainName |-> "www." \o domainName,
   subjectAlternativeNames |-> <<>>,
   hostedZone |-> "Zone"]

\* new acm.DnsValidatedCertificate(this, "SiteCertificate", {...})
SiteCertificate(domainName) ==
  [type |-> "DnsValidatedCertificate",
   domainName |-> "www." \o domainName,
   subjectAlternativeNames |-> <<domainName>>,
   hostedZone |-> "Zone"]

\* faulty variant: the distribution serves from the redirect bucket
SiteDistributionWrongOrigin(domainName) ==
  [type |-> "CloudFrontWebDistribution",
   viewerCertificate |->
     [certificate |-> "SiteCertificate",
      aliases |-> <<www(domainName)>>,
      sslMethod |-> "sni-only",
      securityPolicy |-> "TLSv1.1_2016"],
   originConfigs |->
     <<[s3BucketSource |-> "RedirectBucket",
        behaviors |-> <<[isDefaultBehavior |-> TRUE]>>]>>]

\* new cloudfront.CloudFrontWebDistribution(this, "SiteDistribution", {...})
SiteDistribution(domainName) ==
  [type |-> "CloudFrontWebDistribution",
   viewerCertificate |->
     [certificate |-> "SiteCertificate",
      aliases |-> <<www(domainName)>>,
      sslMethod |-> "sni-only",
      securityPolicy |-> "TLSv1.1_2016"],
   originConfigs |->
     <<[s3BucketSource |-> "SiteBucket",
        behaviors |-> <<[isDefaultBehavior |-> TRUE]>>]>>]

\* faulty variant: the second record is declared for the bare domain again
SiteWithSubdomainAliasRecordBare(domainName) ==
  [type |-> "ARecord",
   recordName |-> domainName,
   target |-> [kind |-> "CloudFrontTarget", ref |-> "SiteDistribution"],
   zone |-> "Zone"]

\* new route53.ARecord(this, "SiteWithSubdomainAliasRecord", {...})
SiteWithSubdomainAliasRecord(domainName) ==
  [type |-> "ARecord",
   recordName |-> www(domainName),
   target |-> [kind |-> "CloudFrontTarget", ref |-> "SiteDistribution"],
   zone |-> "Zone"]

\* faulty variant: only the index page is invalidated
DeployWithPartialInvalidation(domainName) ==
  [type |-> "BucketDeployment",
   sources |-> <<"./website">>,
   destinationBucket |-> "SiteBucket",
   distribution |-> "SiteDistribution",
   distributionPaths |-> <<"/index.html">>]

\* new s3deploy.BucketDeployment(this, "DeployWithInvalidation", {...})
DeployWithInvalidation(domainName) ==
  [type |-> "BucketDeployment",
   sources |-> <<"./website">>,
   destinationBucket |-> "SiteBucket",
   distribution |-> "SiteDistribution",
   distributionPaths |-> <<"/*">>]

\* the CfnOutput values, in the order of the constructor
Outputs(domainName) ==
  [SiteWithSubDomain |-> "https://" \o www(domainName),
   Bucket |-> "SiteBucket",
   RedirectedBucket |-> "RedirectBucket",
   Certificate |-> "SiteCertificate",
   DistributionId |-> "SiteDistribution"]

\* StaticSite.constructor: the description the construct adds to the stack,
\* keyed by construct id.
StaticSite(zones, domainName) ==
  [Zone |-> fromLookup(zones, domainName),
   SiteBucket |-> SiteBucket(domainName),
   RedirectBucket |-> RedirectBucket(domainName),
   RedirectAliasRecord |-> RedirectAliasRecord(domainName),
   SiteCertificate |-> SiteCertificate(domainName),
   SiteDistribution |-> SiteDistribution(domainName),
   SiteWithSubdomainAliasRecord |-> SiteWithSubdomainAliasRecord(domainName),
   DeployWithInvalidation |-> DeployWithInvalidation(domainName)]

\* The construct ids of the resources the stack creates (the zone is looked
\* up, not created).
ResourceIds(t) == {id \in DOMAIN t : t[id].type # "HostedZoneLookup"}

\* ----- state ---------------------------------------------------------------
VARIABLES
  hostedZones,  \* the zones the DNS authority has (not owned by the stack)
  domain,       \* the `domain` context value of the last synthesis
  template,     \* the description of the last synthesis (NoStack before any)
  deployed,     \* the stack's resources as provisioned, by construct id
  buckets,      \* every bucket of the account, by name: objects and redirect
  records,      \* the alias records present in the hosted zones
  cache,        \* what the distribution's edge cache holds, by path
  website,      \* the local ./website directory: revision of each file
  pc,           \* position of the running deploy: idle, upload, invalidate
  error,        \* error of the last deploy or teardown, "" when none
  lastOp,       \* the last operation run against the account
  deployCount,  \* deploys attempted
  lookupCount,  \* hosted-zone lookups made
  distCount     \* distributions created so far

vars == <<hostedZones, domain, template, deployed, buckets, records, cache, website, pc,
          error, lastOp, deployCount, lookupCount, distCount>>

\* ----- synthesis: bin + index.ts -------------------------------------------

\* NaturismIsStack.constructor: new StaticSite(this, 'StaticSite',
\* { domainName: this.node.tryGetContext('domain') })
NaturismIsStack(zones, contextDomain) == StaticSite(zones, contextDomain)

\* new App(); new NaturismIsStack(app, "NaturismIsStack", {env}): the
\* synthesis of the app. A lookup that finds no zone is an error and no
\* description is produced.
Synth(zones, contextDomain) ==
  LET t == NaturismIsStack(zones, contextDomain)
  IN IF t.Zone.found
       THEN [ok |-> TRUE, error |-> "", template |-> t, lookups |-> 1]
       ELSE [ok |-> FALSE, error |-> "ZoneNotFound", template |-> NoStack,
             lookups |-> 1]

\* ----- provisioning --------------------------------------------------------

DistributionId(n) == "E" \o ToString(n)

\* What a reference to another construct resolves to once provisioned.
ResolveRef(t, ref, distId) ==
  CASE t[ref].type = "Bucket" -> t[ref].bucketName
    [] t[ref].type = "CloudFrontWebDistribution" -> distId
    [] t[ref].type = "DnsValidatedCertificate" -> "arn:acm:" \o t[ref].domainName
    [] t[ref].type = "HostedZoneLookup" -> t[ref].domainName

ResolveResource(t, id, distId) ==
  LET r == t[id]
      R(ref) == ResolveRef(t, ref, distId)
  IN CASE r.type = "Bucket" -> r
       [] r.type = "ARecord" ->
            [type |-> r.type, recordName |-> r.recordName,
             target |-> [kind |-> r.target.kind, id |-> R(r.target.ref)],
             zone |-> R(r.zone)]
       [] r.type = "DnsValidatedCertificate" ->
            [type |-> r.type, certificateArn |-> R(id),
             domainName |-> r.domainName,
             subjectAlternativeNames |-> r.subjectAlternativeNames,
             hostedZone |-> R(r.hostedZone)]
       [] r.type = "CloudFrontWebDistribution" ->
            [type |-> r.type, distributionId |-> distId,
             viewerCertificate |->
               [r.viewerCertificate EXCEPT !.certificate = R(@)],
             originConfigs |->
               [i \in DOMAIN r.originConfigs |->
                  [r.originConfigs[i] EXCEPT !.s3BucketSource = R(@)]]]
       [] r.type = "BucketDeployment" ->
            [r EXCEPT !.destinationBucket = R(@), !.distribution = R(@)]

\* The description with every reference resolved.
Resolve(t, distId) ==
  [id \in ResourceIds(t) |-> ResolveResource(t, id, distId)]

BucketIds(d) == {id \in DOMAIN d : d[id].type = "Bucket"}
BucketNames(d) == {d[id].bucketName : id \in BucketIds(d)}
StackRecords(d) ==
  {[zone |-> d[id].zone, recordName |-> d[id].recordName,
    target |-> d[id].target] : id \in {i \in DOMAIN d : d[i].type = "ARecord"}}

StackAbsent == DOMAIN deployed = {}
StackComplete == "SiteDistribution" \in DOMAIN deployed

\* The stack's buckets a removal leaves in place: those of policy RETAIN, and
\* those of policy DESTROY that still hold objects (the deletion errors).
Retained(d, id) == d[id].removalPolicy = "RETAIN"
DeleteFails(d, id) ==
  /\ d[id].removalPolicy = "DESTROY"
  /\ buckets[d[id].bucketName].objects # NoObjects

Restrict(f, S) == [x \in S |-> f[x]]

\* ----- operations ----------------------------------------------------------

Init ==
  /\ hostedZones \in SUBSET Domains
  /\ domain = ""
  /\ template = NoStack
  /\ deployed = NoStack
  /\ buckets = NoStack
  /\ records = {}
  /\ cache = NoObjects
  /\ website \in [Paths -> {1}]
  /\ pc = "idle"
  /\ error = ""
  /\ lastOp = "none"
  /\ deployCount = 0
  /\ lookupCount = 0
  /\ distCount = 0

\* The account after the stack's buckets went from those of `old` to those of
\* `new`: the new names exist with their redirect settings, and a bucket the
\* stack no longer has is removed unless it is kept (Retained, DeleteFails).
BucketsAfter(old, new) ==
  LET gone == {old[id].bucketName : id \in
                 {i \in BucketIds(old) :
                    /\ old[i].bucketName \notin BucketNames(new)
                    /\ ~Retained(old, i)
                    /\ ~DeleteFails(old, i)}}
      names == (DOMAIN buckets \ gone) \cup BucketNames(new)
      conf(n) == (CHOOSE id \in BucketIds(new) : new[id].bucketName = n)
  IN [n \in names |->
        IF n \in BucketNames(new)
          THEN [objects |-> IF n \in DOMAIN buckets
                              THEN buckets[n].objects ELSE NoObjects,
                websiteRedirect |-> new[conf(n)].websiteRedirect]
          ELSE buckets[n]]

\* A bucket name is global: creating a bucket whose name exists fails.
NameCollision(old, t) ==
  \/ \E n \in BucketNames(t) : n \in DOMAIN buckets /\ n \notin BucketNames(old)
  \/ Cardinality(BucketNames(t)) < Cardinality(BucketIds(t))

\* `npm run deploy` with context value d:
\* synthesis, then creation or update of the stack's resources.
Deploy(d) ==
  /\ pc = "idle"
  /\ deployCount < MaxDeploys
  /\ StackAbsent \/ StackComplete
  /\ LET s == Synth(hostedZones, d)
         n == IF StackComplete THEN distCount ELSE distCount + 1
     IN /\ domain' = d
        /\ template' = s.template
        /\ lookupCount' = lookupCount + s.lookups
        /\ deployCount' = deployCount + 1
        /\ lastOp' = "deploy"
        /\ IF ~s.ok
             THEN /\ error' = s.error
                  /\ UNCHANGED <<deployed, buckets, records, cache, pc, distCount>>
             ELSE IF NameCollision(deployed, s.template)
             THEN /\ error' = "BucketNameCollision"
                  /\ UNCHANGED <<deployed, buckets, records, cache, pc, distCount>>
             ELSE LET new == Resolve(s.template, DistributionId(n))
                  IN /\ error' = ""
                     /\ deployed' = new
                     /\ buckets' = BucketsAfter(deployed, new)
                     /\ records' = (records \ StackRecords(deployed))
                                      \cup StackRecords(new)
                     /\ cache' = IF StackComplete THEN cache ELSE NoObjects
                     /\ distCount' = n
                     /\ pc' = "upload"
  /\ UNCHANGED <<hostedZones, website>>

\* DeployWithInvalidation, first half: the assets are copied to the
\* destination bucket, which then holds exactly the local files.
Upload ==
  /\ pc = "upload"
  /\ LET dest == deployed.DeployWithInvalidation.destinationBucket
     IN buckets' = [buckets EXCEPT ![dest].objects = website]
  /\ pc' = "invalidate"
  /\ UNCHANGED <<hostedZones, domain, template, deployed, records, cache, website, error,
                 lastOp, deployCount, lookupCount, distCount>>

\* An invalidation path ending in * covers every path with that prefix,
\* any other path covers itself.
Matches(path, pattern) ==
  LET n == Len(pattern)
  IN IF n > 0 /\ SubSeq(pattern, n, n) = "*"
       THEN /\ Len(path) >= n - 1
            /\ SubSeq(path, 1, n - 1) = SubSeq(pattern, 1, n - 1)
       ELSE path = pattern

\* DeployWithInvalidation, second half: the distribution's cache is
\* invalidated for distributionPaths.
Invalidate ==
  /\ pc = "invalidate"
  /\ LET paths == deployed.DeployWithInvalidation.distributionPaths
         kept == {p \in DOMAIN cache :
                    ~\E i \in DOMAIN paths : Matches(p, paths[i])}
     IN cache' = Restrict(cache, kept)
  /\ pc' = "idle"
  /\ UNCHANGED <<hostedZones, domain, template, deployed, buckets, records, website, error,
                 lastOp, deployCount, lookupCount, distCount>>

\* A viewer asks the distribution for p: a miss is fetched from the origin
\* bucket and cached.
ViewerRequest(p) ==
  /\ StackComplete
  /\ p \notin DOMAIN cache
  /\ LET origin == deployed.SiteDistribution.originConfigs[1].s3BucketSource
     IN /\ origin \in DOMAIN buckets
        /\ p \in DOMAIN buckets[origin].objects
        /\ cache' = cache @@ (p :> buckets[origin].objects[p])
  /\ UNCHANGED <<hostedZones, domain, template, deployed, buckets, records, website, pc,
                 error, lastOp, deployCount, lookupCount, distCount>>

\* The site in ./website is regenerated between deploys, at revision v.
EditWebsite(v) ==
  /\ pc = "idle"
  /\ \E p \in Paths : website[p] # v
  /\ website' = [p \in Paths |-> v]
  /\ UNCHANGED <<hostedZones, domain, template, deployed, buckets, records, cache, pc,
                 error, lastOp, deployCount, lookupCount, distCount>>

\* `cdk destroy`: every resource of the stack is removed according to its
\* removal policy.
Teardown ==
  /\ pc = "idle"
  /\ ~StackAbsent
  /\ LET failed == {id \in BucketIds(deployed) : DeleteFails(deployed, id)}
     IN /\ deployed' = Restrict(deployed, failed)
        /\ buckets' = BucketsAfter(deployed, Restrict(deployed, failed))
        /\ error' = IF failed = {} THEN "" ELSE "BucketNotEmpty"
  /\ records' = records \ StackRecords(deployed)
  /\ cache' = NoObjects
  /\ lastOp' = "teardown"
  /\ UNCHANGED <<hostedZones, domain, template, website, pc, deployCount, lookupCount,
                 distCount>>

\* The operator empties a bucket by hand.
EmptyBucket(n) ==
  /\ pc = "idle"
  /\ n \in DOMAIN buckets
  /\ buckets[n].objects # NoObjects
  /\ buckets' = [buckets EXCEPT ![n].objects = NoObjects]
  /\ lastOp' = "empty"
  /\ UNCHANGED <<hostedZones, domain, template, deployed, records, cache, website, pc,
                 error, deployCount, lookupCount, distCount>>

\* The operator deletes by hand an empty bucket the stack left behind.
DeleteBucket(n) ==
  /\ pc = "idle"
  /\ n \in DOMAIN buckets
  /\ n \notin BucketNames(deployed)
  /\ buckets[n].objects = NoObjects
  /\ buckets' = Restrict(buckets, DOMAIN buckets \ {n})
  /\ lastOp' = "delete-bucket"
  /\ UNCHANGED <<hostedZones, domain, template, deployed, records, cache, website, pc,
                 error, deployCount, lookupCount, distCount>>

\* The owner of a domain creates its hosted zone, or deletes one that holds no
\* alias record.
ZoneChange(z) ==
  /\ pc = "idle"
  /\ \A r \in records : r.zone # z
  /\ hostedZones' = IF z \in hostedZones THEN hostedZones \ {z}
                                         ELSE hostedZones \cup {z}
  /\ UNCHANGED <<domain, template, deployed, buckets, records, cache, website,
                 pc, error, lastOp, deployCount, lookupCount, distCount>>

BucketNamesOfDomains == Domains \cup {www(d) : d \in Domains}

Next ==
  \/ \E d \in Domains : Deploy(d)
  \/ Upload
  \/ Invalidate
  \/ \E p \in Paths : ViewerRequest(p)
  \/ \E v \in Versions : EditWebsite(v)
  \/ Teardown
  \/ \E n \in BucketNamesOfDomains : EmptyBucket(n)
  \/ \E n \in BucketNamesOfDomains : DeleteBucket(n)
  \/ \E z \in Domains : ZoneChange(z)

Spec == Init /\ [][Next]_vars

\* ----- properties ----------------------------------------------------------

Synthesized == template # NoStack

\* C1: for the domain D the app is given, the content bucket (SiteBucket) is
\* named "www." + D and the redirect bucket (RedirectBucket) is named D.
C1_BucketNames ==
  Synthesized =>
    /\ template.SiteBucket.type = "Bucket"
    /\ template.SiteBucket.bucketName = "www." \o domain
    /\ template.RedirectBucket.type = "Bucket"
    /\ template.RedirectBucket.bucketName = domain

C1_Witness ==
  /\ Synthesized
  /\ domain = "example.com"
  /\ template.SiteBucket.bucketName = "www.example.com"
  /\ template.RedirectBucket.bucketName = "example.com"

\* C2: the redirect bucket redirects to the host named like the content
\* bucket, "www." + D, and over https, never http; once deployed, the bucket
\* in the account is configured so.
C2_RedirectTarget ==
  /\ Synthesized =>
       LET r == template.RedirectBucket.websiteRedirect
       IN /\ Len(r) = 1
          /\ r[1].hostName = template.SiteBucket.bucketName
          /\ r[1].hostName = "www." \o domain
          /\ r[1].protocol = "https"
          /\ r[1].protocol # "http"
  /\ StackComplete =>
       LET b == buckets[deployed.RedirectBucket.bucketName]
       IN /\ Len(b.websiteRedirect) = 1
          /\ b.websiteRedirect[1].hostName = deployed.SiteBucket.bucketName
          /\ b.websiteRedirect[1].protocol = "https"

C2_Witness ==
  /\ StackComplete
  /\ domain = "example.com"
  /\ error = ""
  /\ buckets["example.com"].websiteRedirect
       = <<[hostName |-> "www.example.com", protocol |-> "https"]>>

ARecordIds(t) == {id \in DOMAIN t : t[id].type = "ARecord"}

\* C3: exactly two alias records are declared: one named D whose target is
\* the redirect bucket's website endpoint, one named "www." + D whose target
\* is the distribution; both in the zone looked up for D, and the zones hold
\* no other record of the stack once it is deployed.
C3_TwoAliasRecords ==
  /\ Synthesized =>
       /\ Cardinality(ARecordIds(template)) = 2
       /\ \E a, b \in ARecordIds(template) :
            /\ a # b
            /\ template[a].recordName = domain
            /\ template[a].target.kind = "BucketWebsiteTarget"
            /\ template[a].target.ref = "RedirectBucket"
            /\ template[b].recordName = "www." \o domain
            /\ template[b].target.kind = "CloudFrontTarget"
            /\ template[template[b].target.ref].type = "CloudFrontWebDistribution"
       /\ \A a \in ARecordIds(template) :
            /\ template[template[a].zone].type = "HostedZoneLookup"
            /\ template[template[a].zone].domainName = domain
  /\ StackComplete =>
       /\ Cardinality(records) = 2
       /\ {r.recordName : r \in records}
            = {deployed.RedirectBucket.bucketName,
               deployed.SiteBucket.bucketName}

C3_Witness ==
  /\ StackComplete
  /\ error = ""
  /\ records =
       {[zone |-> "example.com", recordName |-> "example.com",
         target |-> [kind |-> "BucketWebsiteTarget", id |-> "example.com"]],
        [zone |-> "example.com", recordName |-> "www.example.com",
         target |-> [kind |-> "CloudFrontTarget",
                     id |-> deployed.SiteDistribution.distributionId]]}

\* C4: the certificate's primary name is "www." + D, its alternative names
\* are exactly {D}, and it is validated in the zone looked up for D.
C4_Certificate ==
  Synthesized =>
    LET c == template.SiteCertificate
    IN /\ c.domainName = "www." \o domain
       /\ {c.subjectAlternativeNames[i] : i \in DOMAIN c.subjectAlternativeNames}
            = {domain}
       /\ Len(c.subjectAlternativeNames) = 1
       /\ template[c.hostedZone].type = "HostedZoneLookup"
       /\ template[c.hostedZone].domainName = domain
       /\ c.hostedZone = template.RedirectAliasRecord.zone
       /\ c.hostedZone = template.SiteWithSubdomainAliasRecord.zone

C4_Witness ==
  /\ Synthesized
  /\ template.SiteCertificate.domainName = "www.naturism.is"
  /\ template.SiteCertificate.subjectAlternativeNames = <<"naturism.is">>
  /\ template[template.SiteCertificate.hostedZone].found

\* C5: the distribution has exactly one origin, the content bucket, and
\* exactly one caching behaviour, the default one; it presents the
\* certificate requested for "www." + D with the alias list <<"www." + D>>.
C5_Distribution ==
  Synthesized =>
    LET dist == template.SiteDistribution
        o == dist.originConfigs
    IN /\ Len(o) = 1
       /\ o[1].s3BucketSource = "SiteBucket"
       /\ template[o[1].s3BucketSource].bucketName = "www." \o domain
       /\ Len(o[1].behaviors) = 1
       /\ o[1].behaviors[1].isDefaultBehavior
       /\ template[dist.viewerCertificate.certificate].type
            = "DnsValidatedCertificate"
       /\ template[dist.viewerCertificate.certificate].domainName
            = "www." \o domain
       /\ dist.viewerCertificate.aliases = <<"www." \o domain>>
       /\ StackComplete =>
            /\ Len(deployed.SiteDistribution.originConfigs) = 1
            /\ deployed.SiteDistribution.originConfigs[1].s3BucketSource
                 = deployed.SiteBucket.bucketName

C5_Witness ==
  /\ StackComplete
  /\ error = ""
  /\ deployed.SiteDistribution.originConfigs
       = <<[s3BucketSource |-> "www.naturism.is",
            behaviors |-> <<[isDefaultBehavior |-> TRUE]>>]>>
  /\ deployed.SiteDistribution.viewerCertificate.aliases = <<"www.naturism.is">>

\* The deploy that was started has run to its end without error.
DeployCompleted == lastOp = "deploy" /\ pc = "idle" /\ error = "" /\ StackComplete

ContentObjects == buckets[deployed.SiteBucket.bucketName].objects

\* C6: every deploy that provisions the stack uploads ./website into the
\* content bucket and no other bucket, and then, only after the upload,
\* invalidates every path of the distribution's cache; when the deploy has
\* completed, nothing the cache holds differs from the content bucket.
C6_UploadThenInvalidateAll ==
  /\ [](DeployCompleted =>
          \A p \in DOMAIN cache :
            p \in DOMAIN ContentObjects /\ cache[p] = ContentObjects[p])
  /\ [][(deployCount' # deployCount /\ error' = "") => pc' = "upload"]_vars
  /\ [][(pc = "upload" /\ pc' # "upload") =>
          /\ pc' = "invalidate"
          /\ cache' = cache
          /\ buckets'[deployed.SiteBucket.bucketName].objects = website
          /\ \A n \in DOMAIN buckets :
               n # deployed.SiteBucket.bucketName => buckets'[n] = buckets[n]]_vars
  /\ [][(pc = "invalidate" /\ pc' # "invalidate") =>
          /\ pc' = "idle"
          /\ cache' = NoObjects
          /\ buckets' = buckets]_vars
  /\ [][(pc # "idle" /\ pc' = "idle") => pc = "invalidate"]_vars

\* A redeploy of a regenerated site has completed, and viewers are served
\* the new revision.
C6_Witness ==
  /\ DeployCompleted
  /\ deployCount >= 2
  /\ \A p \in Paths : website[p] = 2
  /\ ContentObjects = website
  /\ DOMAIN cache = Paths

ContentBucketNonEmpty ==
  /\ "SiteBucket" \in DOMAIN deployed
  /\ buckets[deployed.SiteBucket.bucketName].objects # NoObjects

\* C7: teardown attempts to delete the content bucket: an empty one is
\* deleted; a non-empty one makes the teardown fail with an error, and the
\* bucket and every object in it remain.
C7_TeardownKeepsNonEmptyBucket ==
  /\ [][(Teardown /\ ContentBucketNonEmpty) =>
          /\ error' = "BucketNotEmpty"
          /\ "SiteBucket" \in DOMAIN deployed'
          /\ deployed.SiteBucket.bucketName \in DOMAIN buckets'
          /\ buckets'[deployed.SiteBucket.bucketName].objects
               = buckets[deployed.SiteBucket.bucketName].objects]_vars
  /\ [][(Teardown /\ "SiteBucket" \in DOMAIN deployed /\ ~ContentBucketNonEmpty) =>
          /\ error' = ""
          /\ deployed.SiteBucket.bucketName \notin DOMAIN buckets']_vars

C7_Witness ==
  /\ lastOp = "teardown"
  /\ error = "BucketNotEmpty"
  /\ DOMAIN deployed = {"SiteBucket"}
  /\ buckets[deployed.SiteBucket.bucketName].objects = website
  /\ records = {}

NothingProvisioned ==
  /\ deployed = NoStack
  /\ buckets = NoStack
  /\ records = {}
  /\ distCount = 0

\* C8: a deploy whose hosted-zone lookup finds no zone fails with that error
\* and creates nothing: buckets, records, certificate, distribution and
\* deployment are as they were before it, so nothing exists after it on an
\* account where nothing existed; the lookup is made once per deploy.
C8_ZoneNotFoundAborts ==
  /\ [][(deployCount' # deployCount /\ domain' \notin hostedZones) =>
          /\ error' = "ZoneNotFound"
          /\ template' = NoStack
          /\ UNCHANGED <<deployed, buckets, records, cache, pc, distCount>>
          /\ NothingProvisioned => NothingProvisioned'
          /\ lookupCount' = lookupCount + 1]_vars
  /\ [](lookupCount = deployCount)

C8_Witness ==
  /\ lastOp = "deploy"
  /\ error = "ZoneNotFound"
  /\ domain \notin hostedZones
  /\ NothingProvisioned
  /\ lookupCount = 1

RedirectInStack == "RedirectBucket" \in DOMAIN deployed

\* C9 as stated: the redirect bucket exists after a successful deploy and no
\* longer exists after a teardown of the stack.
C9_RedirectBucketDestroyed ==
  /\ [](StackComplete => deployed.RedirectBucket.bucketName \in DOMAIN buckets)
  /\ [][(Teardown /\ RedirectInStack) =>
          deployed.RedirectBucket.bucketName \notin DOMAIN buckets']_vars

\* C9 amended: the redirect bucket exists after a successful deploy; a
\* teardown removes it from the stack but not from the account, where it
\* remains as it was (its removal policy is the default, RETAIN).
C9_RedirectBucketRetained ==
  /\ [](StackComplete => deployed.RedirectBucket.bucketName \in DOMAIN buckets)
  /\ [][(Teardown /\ RedirectInStack) =>
          /\ ~RedirectInStack'
          /\ deployed.RedirectBucket.bucketName \in DOMAIN buckets'
          /\ buckets'[deployed.RedirectBucket.bucketName]
               = buckets[deployed.RedirectBucket.bucketName]]_vars

C9_Witness ==
  /\ lastOp = "teardown"
  /\ StackAbsent
  /\ error = ""
  /\ \E d \in Domains :
       /\ d \in DOMAIN buckets
       /\ buckets[d].websiteRedirect # <<>>

\* The stack's own references all name the resources it currently has.
StackPointsAtCurrent ==
  LET content == deployed.SiteBucket.bucketName
      redirect == deployed.RedirectBucket.bucketName
      dist == deployed.SiteDistribution.distributionId
      zone == deployed.RedirectAliasRecord.zone
  IN /\ content \in DOMAIN buckets
     /\ redirect \in DOMAIN buckets
     /\ content # redirect
     /\ buckets[redirect].websiteRedirect
          = <<[hostName |-> content, protocol |-> "https"]>>
     /\ deployed.SiteDistribution.originConfigs[1].s3BucketSource = content
     /\ deployed.DeployWithInvalidation.destinationBucket = content
     /\ deployed.DeployWithInvalidation.distribution = dist
     /\ records =
          {[zone |-> zone, recordName |-> redirect,
            target |-> [kind |-> "BucketWebsiteTarget", id |-> redirect]],
           [zone |-> zone, recordName |-> content,
            target |-> [kind |-> "CloudFrontTarget", id |-> dist]]}

\* C10 as stated: the stack's references name its current resources, and no
\* record and no redirect anywhere is left naming a resource of an earlier
\* deploy.
C10_NothingPointsAtEarlier ==
  /\ ~StackComplete => records = {}
  /\ StackComplete =>
       /\ StackPointsAtCurrent
       /\ \A n \in DOMAIN buckets :
            buckets[n].websiteRedirect # <<>> =>
              buckets[n].websiteRedirect[1].hostName
                = deployed.SiteBucket.bucketName

\* C10 amended: the stack's redirect bucket, records, distribution and
\* deployment name its current resources and no record of an earlier deploy
\* is left in any zone; a redirect bucket of an earlier domain that the
\* account retained is the only thing still naming an earlier host.
C10_StackPointsAtCurrent ==
  /\ ~StackComplete => records = {}
  /\ StackComplete =>
       /\ StackPointsAtCurrent
       /\ \A n \in DOMAIN buckets :
            (buckets[n].websiteRedirect # <<>> /\ n \in BucketNames(deployed)) =>
              buckets[n].websiteRedirect[1].hostName
                = deployed.SiteBucket.bucketName

\* After a redeploy with another domain, buckets of the earlier one remain.
C10_Witness ==
  /\ DeployCompleted
  /\ deployCount >= 2
  /\ domain = "example.com"
  /\ deployed.SiteBucket.bucketName = "www.example.com"
  /\ "naturism.is" \in DOMAIN buckets
  /\ "www.naturism.is" \in DOMAIN buckets

====
